---------------------------- MODULE Spec2Model ----------------------------
(* awmrandr: the lazy query layer over awesome's D-Bus "eval" call.          *)
(* src/src/awesome.rs is the library; src/src/main.rs repeats it and adds    *)
(* the entry-point traversal.                                                *)
EXTENDS Integers, Sequences, FiniteSets, TLC

(***************************************************************************)
(* Bounds of the model.                                                    *)
(***************************************************************************)
\* largest count the remote window manager reports for a container
MaxCount == 2
\* number of times the remote state changes during a run
MaxEpoch == 1

(***************************************************************************)
(* u32.  A value is kept as two 16-bit limbs so that the full 32-bit range *)
(* is representable; arithmetic reports overflow instead of hiding it.     *)
(***************************************************************************)
Limb == 2 ^ 16

U32(n) == [hi |-> n \div Limb, lo |-> n % Limb]

U32Max == [hi |-> Limb - 1, lo |-> Limb - 1]

LtU32(a, b) == \/ a.hi < b.hi
               \/ a.hi = b.hi /\ a.lo < b.lo

\* a + 1 on u32: the wrapped value and whether the addition overflowed
AddOne(a) ==
    IF a.lo + 1 < Limb THEN [val |-> [hi |-> a.hi, lo |-> a.lo + 1], ovf |-> FALSE]
    ELSE IF a.hi + 1 < Limb THEN [val |-> [hi |-> a.hi + 1, lo |-> 0], ovf |-> FALSE]
    ELSE [val |-> [hi |-> 0, lo |-> 0], ovf |-> TRUE]

\* a - 1, for a > 0
SubOne(a) == IF a.lo > 0 THEN [hi |-> a.hi, lo |-> a.lo - 1]
             ELSE [hi |-> a.hi - 1, lo |-> Limb - 1]

\* a * 10 + d, checked: what u32::from_str does for each digit
MulTenAdd(a, d) ==
    LET lo10 == a.lo * 10 + d
        hi10 == a.hi * 10 + (lo10 \div Limb)
    IN  IF hi10 < Limb THEN [val |-> [hi |-> hi10, lo |-> lo10 % Limb], ovf |-> FALSE]
        ELSE [val |-> U32Max, ovf |-> TRUE]

\* quotient and remainder of a by 10
DivTen(a) ==
    LET mid == (a.hi % 10) * Limb + a.lo
    IN  [quot |-> [hi |-> a.hi \div 10, lo |-> mid \div 10], rem |-> mid % 10]

(***************************************************************************)
(* Text.  Expressions and replies are strings.                             *)
(***************************************************************************)
DigitChars == "0123456789"

CharAt(text, i) == SubSeq(text, i, i)

IsDigit(ch) == \E d \in 0..9 : CharAt(DigitChars, d + 1) = ch

DigitVal(ch) == CHOOSE d \in 0..9 : CharAt(DigitChars, d + 1) = ch

\* Display for u32, as used by the {} placeholders of format!
RECURSIVE Display(_)
Display(a) ==
    LET qr == DivTen(a)
    IN  IF qr.quot = U32(0) THEN CharAt(DigitChars, qr.rem + 1)
        ELSE Display(qr.quot) \o CharAt(DigitChars, qr.rem + 1)

\* str::parse::<u32>: an optional leading "+", then one or more digits,
\* accumulated with checked arithmetic
RECURSIVE ParseDigits(_, _, _)
ParseDigits(text, i, acc) ==
    IF i > Len(text) THEN [ok |-> TRUE, val |-> acc]
    ELSE IF ~IsDigit(CharAt(text, i)) THEN [ok |-> FALSE, val |-> U32(0)]
    ELSE LET step == MulTenAdd(acc, DigitVal(CharAt(text, i)))
         IN  IF step.ovf THEN [ok |-> FALSE, val |-> U32(0)]
             ELSE ParseDigits(text, i + 1, step.val)

ParseU32(text) ==
    IF Len(text) = 0 THEN [ok |-> FALSE, val |-> U32(0)]
    ELSE IF text = "+" \/ text = "-" THEN [ok |-> FALSE, val |-> U32(0)]
    ELSE IF CharAt(text, 1) = "+" THEN ParseDigits(text, 2, U32(0))
    ELSE ParseDigits(text, 1, U32(0))

(***************************************************************************)
(* The remote side: awesome behind org.awesomewm.awful.Remote.Eval.        *)
(* It is an input of the program.  A call either fails on the bus or is    *)
(* answered with a text; the objects of the remote are addressed from 1.   *)
(***************************************************************************)
RECURSIVE NatText(_)
NatText(n) == IF n < 10 THEN CharAt(DigitChars, n + 1)
              ELSE NatText(n \div 10) \o CharAt(DigitChars, (n % 10) + 1)

\* positions the remote can hold an object at
RemoteIdx == 1..(MaxCount + 1)

RemoteScreen(s) == "screen[" \o NatText(s) \o "]"
RemoteTag(s, t) == RemoteScreen(s) \o ".tags[" \o NatText(t) \o "]"
RemoteClient(s, t, c) == RemoteTag(s, t) \o ":clients()[" \o NatText(c) \o "]"

Wrapped(code) == "return tostring(" \o code \o ")"

\* the X window id of the client at a position, at an epoch
RemoteWindow(s, t, c, e) == 3 * c + 10 * (t - 1) + 100 * (s - 1) + 1000 * e

\* the answers a healthy remote gives: [text, n], n the number the text
\* stands for (-1: the text is not a number)
CountAnswers == {[text |-> NatText(n), n |-> n] : n \in 0..MaxCount}

\* what the remote holds: every expression that addresses an object, with
\* the property it reads and the position of the object
RemoteObjects ==
    {[query |-> Wrapped("screen:count()"), property |-> "count", s |-> 0, t |-> 0, c |-> 0]}
    \cup {[query |-> Wrapped("#" \o RemoteScreen(s) \o ".tags"),
           property |-> "count", s |-> s, t |-> 0, c |-> 0] : s \in RemoteIdx}
    \cup {[query |-> Wrapped("#" \o RemoteTag(s, t) \o ":clients()"),
           property |-> "count", s |-> s, t |-> t, c |-> 0] : s \in RemoteIdx, t \in RemoteIdx}
    \cup {[query |-> Wrapped(RemoteTag(s, t) \o ".name"),
           property |-> "tag", s |-> s, t |-> t, c |-> 0] : s \in RemoteIdx, t \in RemoteIdx}
    \cup UNION {{[query |-> Wrapped(RemoteClient(s, t, c) \o "." \o property),
                  property |-> property, s |-> s, t |-> t, c |-> c] :
                    property \in {"name", "class", "window"}, c \in RemoteIdx} :
                s \in RemoteIdx, t \in RemoteIdx}

\* the text of a name or class property at a position, at an epoch
RemoteText(property, s, t, c, e) ==
    property \o NatText(s) \o "." \o NatText(t) \o "." \o NatText(c) \o "@" \o NatText(e)

Answers(query, e) ==
    UNION {IF o.property = "count" THEN CountAnswers
           ELSE IF o.property = "window"
                THEN {[text |-> NatText(RemoteWindow(o.s, o.t, o.c, e)),
                       n |-> RemoteWindow(o.s, o.t, o.c, e)]}
           ELSE {[text |-> RemoteText(o.property, o.s, o.t, o.c, e), n |-> -1]} :
           o \in {o \in RemoteObjects : o.query = query}}

\* texts a remote of another version, or a changed object, can answer with
\* where a number is asked for
OtherAnswers == {[text |-> "abc", n |-> -1], [text |-> "", n |-> -1],
                 [text |-> "-1", n |-> -1], [text |-> "4294967296", n |-> -1],
                 [text |-> "+1", n |-> 1]}

\* every outcome of one eval call: a bus error, or a text.  An expression
\* that addresses no object raises in the remote, which is a bus error.
Replies(query, e) ==
    {[ok |-> FALSE, text |-> "", n |-> -1]}
    \cup {[ok |-> TRUE, text |-> a.text, n |-> a.n] :
            a \in IF \E b \in Answers(query, e) : b.n >= 0
                  THEN Answers(query, e) \cup OtherAnswers
                  ELSE Answers(query, e)}

(***************************************************************************)
(* The program: src/src/awesome.rs                                         *)
(***************************************************************************)
NoNode == [index |-> U32(0), none |-> TRUE]

\* struct AwesomeScreen / AwesomeTag / AwesomeClient: the parent reference
\* is kept as the parent's value
AwesomeScreen(i) == [index |-> i]
AwesomeTag(i, screen) == [index |-> i, screen |-> screen]
AwesomeClient(i, tag) == [index |-> i, tag |-> tag]

Ok(v) == [kind |-> "Ok", val |-> v]
CountParseError == [kind |-> "CountParseError", val |-> <<>>]
DBusConnectionError == [kind |-> "DBusConnectionError", val |-> <<>>]

\* Awesome::execute: the query put on the bus for an expression
Execute(code) == "return tostring(" \o code \o ")"

\* variant: the call is made a second time
ProxyEvalTwice(calls, query) == Append(Append(calls, query), query)

\* CommanderProxy::eval: one method call on the bus
ProxyEval(calls, query) == Append(calls, query)

\* variant: a reply that does not parse reported as a bus error
ParseReplyConflated(r) ==
    IF ~r.ok THEN DBusConnectionError
    ELSE LET p == ParseU32(r.text)
         IN  IF p.ok THEN Ok(p.val) ELSE DBusConnectionError

\* the ? after .await: a failed call leaves the function with the bus error
\* .parse().map_err(EvalError::CountParseError)
ParseReply(r) ==
    IF ~r.ok THEN DBusConnectionError
    ELSE LET p == ParseU32(r.text)
         IN  IF p.ok THEN Ok(p.val) ELSE CountParseError

TextReply(r) == IF ~r.ok THEN DBusConnectionError ELSE Ok(r.text)

\* variant: the range 0..=count
InRangeInclusive(i, count) == LtU32(i, count) \/ i = count

\* i is one of the values the range 0..count yields
InRange(i, count) == LtU32(i, count)

\* the values of the range 0..count, in order
RECURSIVE Range(_)
Range(count) == IF ~InRange(U32(0), count) THEN <<>>
                ELSE Append(Range(SubOne(count)), SubOne(count))

\* the loop bodies: the node pushed for the value i of the range
PushScreen(i) == [node |-> AwesomeScreen(i), ovf |-> FALSE]
PushTag(i, screen) == [node |-> AwesomeTag(i, screen), ovf |-> FALSE]
\* variant: clients numbered like screens and tags
PushClientFromZero(i, tag) == [node |-> AwesomeClient(i, tag), ovf |-> FALSE]
PushClient(i, tag) == [node |-> AwesomeClient(AddOne(i).val, tag), ovf |-> AddOne(i).ovf]

\* variant: the stored index sent as it is
IndexRaw(node) == [val |-> node.index, ovf |-> FALSE]

\* the index sent for a screen or a tag: self.index + 1
IndexPlusOne(node) == AddOne(node.index)

\* the format! calls: the expression, and whether an index addition in its
\* arguments overflowed
ScreenCountCode == [text |-> "screen:count()", ovf |-> FALSE]

TagCountCode(screen) ==
    [text |-> "#screen[" \o Display(IndexPlusOne(screen).val) \o "].tags",
     ovf |-> IndexPlusOne(screen).ovf]

TagNameCode(tag) ==
    [text |-> "screen[" \o Display(IndexPlusOne(tag.screen).val) \o "].tags["
                        \o Display(IndexPlusOne(tag).val) \o "].name",
     ovf |-> IndexPlusOne(tag.screen).ovf \/ IndexPlusOne(tag).ovf]

ClientCountCode(tag) ==
    [text |-> "#screen[" \o Display(IndexPlusOne(tag.screen).val) \o "].tags["
                         \o Display(IndexPlusOne(tag).val) \o "]:clients()",
     ovf |-> IndexPlusOne(tag.screen).ovf \/ IndexPlusOne(tag).ovf]

\* variant: the client addressed with index + 1, like its ancestors
ClientCodePlusOne(client, property) ==
    [text |-> "screen[" \o Display(AddOne(client.tag.screen.index).val) \o "].tags["
                        \o Display(AddOne(client.tag.index).val) \o "]:clients()["
                        \o Display(AddOne(client.index).val) \o "]." \o property,
     ovf |-> AddOne(client.tag.screen.index).ovf \/ AddOne(client.tag.index).ovf
             \/ AddOne(client.index).ovf]

\* variant: the tag's index where the client's belongs
ClientCodeTagIndex(client, property) ==
    [text |-> "screen[" \o Display(AddOne(client.tag.screen.index).val) \o "].tags["
                        \o Display(AddOne(client.tag.index).val) \o "]:clients()["
                        \o Display(client.tag.index) \o "]." \o property,
     ovf |-> AddOne(client.tag.screen.index).ovf \/ AddOne(client.tag.index).ovf]

ClientCode(client, property) ==
    [text |-> "screen[" \o Display(IndexPlusOne(client.tag.screen).val) \o "].tags["
                        \o Display(IndexPlusOne(client.tag).val) \o "]:clients()["
                        \o Display(client.index) \o "]." \o property,
     ovf |-> IndexPlusOne(client.tag.screen).ovf \/ IndexPlusOne(client.tag).ovf]

\* Awesome::get_screen_count, after the reply
GetScreenCount(node, r) == ParseReply(r)

\* Awesome::get_screens, after the reply
GetScreens(node, r) ==
    LET screen_count == GetScreenCount(node, r)
    IN  IF screen_count.kind # "Ok" THEN screen_count
        ELSE LET range == Range(screen_count.val)
             IN  Ok([k \in 1..Len(range) |-> PushScreen(range[k]).node])

\* AwesomeScreen::get_tag_count, after the reply
GetTagCount(screen, r) == ParseReply(r)

\* variant: a failed count taken as no tags
GetTagsSwallow(screen, r) ==
    LET tag_count == ParseReply(r)
    IN  IF tag_count.kind # "Ok" THEN Ok(<<>>)
        ELSE LET range == Range(tag_count.val)
             IN  Ok([k \in 1..Len(range) |-> PushTag(range[k], screen).node])

\* AwesomeScreen::get_tags, after the reply
GetTags(screen, r) ==
    LET tag_count == GetTagCount(screen, r)
    IN  IF tag_count.kind # "Ok" THEN tag_count
        ELSE LET range == Range(tag_count.val)
             IN  Ok([k \in 1..Len(range) |-> PushTag(range[k], screen).node])

\* AwesomeTag::get_name, after the reply
TagGetName(tag, r) == TextReply(r)

\* AwesomeTag::get_clients, after the reply
GetClients(tag, r) ==
    LET client_count == ParseReply(r)
    IN  IF client_count.kind # "Ok" THEN client_count
        ELSE LET range == Range(client_count.val)
             IN  Ok([k \in 1..Len(range) |-> PushClient(range[k], tag).node])

\* AwesomeClient::get_name / get_x_window_id / get_class, after the reply
ClientGetName(client, r) == TextReply(r)
GetXWindowId(client, r) == ParseReply(r)
GetClass(client, r) == TextReply(r)

(***************************************************************************)
(* State.                                                                  *)
(***************************************************************************)
VARIABLES
    epoch,      \* how often the remote state has changed
    bus,        \* eval calls sent and not yet answered, oldest first
    pc,         \* "idle", or "awaiting" inside an operation's .await
    pending,    \* the operation that is awaiting, and its receiver
    ncalls,     \* eval calls made by the last operation invoked
    result,     \* what the last operation returned: receiver, reply, value
    screens,    \* the Vec<AwesomeScreen> the caller holds
    tags,       \* the Vec<AwesomeTag> the caller holds
    clients,    \* the Vec<AwesomeClient> the caller holds
    line,       \* main: the statement main is at
    si, ti, ci, \* main: position in the loops over screens, tags, clients
    probe       \* one index computation followed through a count reply

vars == <<epoch, bus, pc, pending, ncalls, result, screens, tags, clients,
          line, si, ti, ci, probe>>

mainVars == <<line, si, ti, ci>>

NoProbe == [stage |-> "none", text |-> "", level |-> "none", count |-> U32(0),
            i |-> U32(0), node |-> NoNode, code |-> "", ovf |-> FALSE]

NoReply == [ok |-> FALSE, text |-> "", n |-> -1]

\* asked: the epoch of the remote when the call was made
\* afterFailure: the call follows a failed property fetch on a sibling
NoPending == [op |-> "none", node |-> NoNode, asked |-> 0, afterFailure |-> FALSE]

NoResult == [op |-> "none", node |-> NoNode, asked |-> 0, afterFailure |-> FALSE,
             reply |-> NoReply, out |-> Ok(<<>>)]

PropertyOps == {"tag_get_name", "client_get_name", "get_x_window_id", "get_class"}

Init ==
    /\ epoch = 0
    /\ bus = <<>>
    /\ pc = "idle"
    /\ pending = NoPending
    /\ ncalls = 0
    /\ result = NoResult
    /\ screens = <<>>
    /\ tags = <<>>
    /\ clients = <<>>
    /\ line = 0
    /\ si = 0
    /\ ti = 0
    /\ ci = 0
    /\ probe = NoProbe

\* the remote state changes under the program
RemoteChange ==
    /\ epoch < MaxEpoch
    /\ epoch' = epoch + 1
    /\ UNCHANGED <<bus, pc, pending, ncalls, result, screens, tags, clients,
                   mainVars, probe>>

\* the last operation was a property fetch that failed, on another node of
\* the sequence that holds node
AfterSiblingFailure(node) ==
    /\ result.op \in PropertyOps
    /\ result.out.kind # "Ok"
    /\ result.node # node
    /\ \/ {result.node, node} \subseteq {tags[k] : k \in 1..Len(tags)}
       \/ {result.node, node} \subseteq {clients[k] : k \in 1..Len(clients)}

\* variant: the call is sent and not awaited
CallDetached(op, node, code) ==
    /\ pc = "idle"
    /\ bus' = ProxyEval(bus, Execute(code.text))
    /\ ncalls' = Len(bus') - Len(bus)
    /\ pending' = [op |-> op, node |-> node, asked |-> epoch,
                   afterFailure |-> AfterSiblingFailure(node)]
    /\ pc' = "idle"
    /\ result' = NoResult
    /\ UNCHANGED <<epoch, screens, tags, clients, probe>>

\* an operation runs up to its .await: the expression is built and sent.
\* An overflowing index addition panics or wraps, as the build decides.
Call(op, node, code) ==
    /\ pc = "idle"
    /\ bus' = ProxyEval(bus, Execute(code.text))
    /\ ncalls' = Len(bus') - Len(bus)
    /\ pending' = [op |-> op, node |-> node, asked |-> epoch,
                   afterFailure |-> AfterSiblingFailure(node)]
    /\ \E panic \in IF code.ovf THEN BOOLEAN ELSE {FALSE} :
          pc' = IF panic THEN "panicked" ELSE "awaiting"
    /\ result' = NoResult
    /\ UNCHANGED <<epoch, screens, tags, clients, probe>>

\* the reply arrives and the operation runs to its return
Return(op, r, out) ==
    /\ bus' = Tail(bus)
    /\ pc' = "idle"
    /\ pending' = NoPending
    /\ result' = [op |-> op, node |-> pending.node, asked |-> pending.asked,
                  afterFailure |-> pending.afterFailure, reply |-> r, out |-> out]
    /\ UNCHANGED <<epoch, ncalls, probe>>

Awaiting(op) == pc = "awaiting" /\ pending.op = op /\ bus # <<>>

(***************************************************************************)
(* A caller of the library: it invokes any operation on any node it holds  *)
(* and keeps the sequences that are returned.  A new sequence replaces the *)
(* old one, and the nodes that borrowed from the old one are dropped.      *)
(***************************************************************************)
CallGetScreenCount ==
    /\ Call("get_screen_count", NoNode, ScreenCountCode)
    /\ UNCHANGED mainVars

ReturnGetScreenCount ==
    /\ Awaiting("get_screen_count")
    /\ \E r \in Replies(Head(bus), epoch) :
          Return("get_screen_count", r, GetScreenCount(pending.node, r))
    /\ UNCHANGED <<screens, tags, clients, mainVars>>

CallGetScreens ==
    /\ Call("get_screens", NoNode, ScreenCountCode)
    /\ UNCHANGED mainVars

ReturnGetScreens ==
    /\ Awaiting("get_screens")
    /\ \E r \in Replies(Head(bus), epoch) :
          LET out == GetScreens(pending.node, r)
          IN  /\ Return("get_screens", r, out)
              /\ screens' = IF out.kind = "Ok" THEN out.val ELSE screens
              /\ tags' = IF out.kind = "Ok" THEN <<>> ELSE tags
              /\ clients' = IF out.kind = "Ok" THEN <<>> ELSE clients
    /\ UNCHANGED mainVars

CallGetTagCount ==
    /\ \E k \in 1..Len(screens) :
          Call("get_tag_count", screens[k], TagCountCode(screens[k]))
    /\ UNCHANGED mainVars

ReturnGetTagCount ==
    /\ Awaiting("get_tag_count")
    /\ \E r \in Replies(Head(bus), epoch) :
          Return("get_tag_count", r, GetTagCount(pending.node, r))
    /\ UNCHANGED <<screens, tags, clients, mainVars>>

CallGetTags ==
    /\ \E k \in 1..Len(screens) :
          Call("get_tags", screens[k], TagCountCode(screens[k]))
    /\ UNCHANGED mainVars

ReturnGetTags ==
    /\ Awaiting("get_tags")
    /\ \E r \in Replies(Head(bus), epoch) :
          LET out == GetTags(pending.node, r)
          IN  /\ Return("get_tags", r, out)
              /\ tags' = IF out.kind = "Ok" THEN out.val ELSE tags
              /\ clients' = IF out.kind = "Ok" THEN <<>> ELSE clients
    /\ UNCHANGED <<screens, mainVars>>

CallTagGetName ==
    /\ \E k \in 1..Len(tags) :
          Call("tag_get_name", tags[k], TagNameCode(tags[k]))
    /\ UNCHANGED mainVars

ReturnTagGetName ==
    /\ Awaiting("tag_get_name")
    /\ \E r \in Replies(Head(bus), epoch) :
          Return("tag_get_name", r, TagGetName(pending.node, r))
    /\ UNCHANGED <<screens, tags, clients, mainVars>>

CallGetClients ==
    /\ \E k \in 1..Len(tags) :
          Call("get_clients", tags[k], ClientCountCode(tags[k]))
    /\ UNCHANGED mainVars

ReturnGetClients ==
    /\ Awaiting("get_clients")
    /\ \E r \in Replies(Head(bus), epoch) :
          LET out == GetClients(pending.node, r)
          IN  /\ Return("get_clients", r, out)
              /\ clients' = IF out.kind = "Ok" THEN out.val ELSE clients
    /\ UNCHANGED <<screens, tags, mainVars>>

CallClientGetName ==
    /\ \E k \in 1..Len(clients) :
          Call("client_get_name", clients[k], ClientCode(clients[k], "name"))
    /\ UNCHANGED mainVars

ReturnClientGetName ==
    /\ Awaiting("client_get_name")
    /\ \E r \in Replies(Head(bus), epoch) :
          Return("client_get_name", r, ClientGetName(pending.node, r))
    /\ UNCHANGED <<screens, tags, clients, mainVars>>

CallGetXWindowId ==
    /\ \E k \in 1..Len(clients) :
          Call("get_x_window_id", clients[k], ClientCode(clients[k], "window"))
    /\ UNCHANGED mainVars

ReturnGetXWindowId ==
    /\ Awaiting("get_x_window_id")
    /\ \E r \in Replies(Head(bus), epoch) :
          Return("get_x_window_id", r, GetXWindowId(pending.node, r))
    /\ UNCHANGED <<screens, tags, clients, mainVars>>

CallGetClass ==
    /\ \E k \in 1..Len(clients) :
          Call("get_class", clients[k], ClientCode(clients[k], "class"))
    /\ UNCHANGED mainVars

ReturnGetClass ==
    /\ Awaiting("get_class")
    /\ \E r \in Replies(Head(bus), epoch) :
          Return("get_class", r, GetClass(pending.node, r))
    /\ UNCHANGED <<screens, tags, clients, mainVars>>

Next ==
    \/ RemoteChange
    \/ CallGetScreenCount \/ ReturnGetScreenCount
    \/ CallGetScreens \/ ReturnGetScreens
    \/ CallGetTagCount \/ ReturnGetTagCount
    \/ CallGetTags \/ ReturnGetTags
    \/ CallTagGetName \/ ReturnTagGetName
    \/ CallGetClients \/ ReturnGetClients
    \/ CallClientGetName \/ ReturnClientGetName
    \/ CallGetXWindowId \/ ReturnGetXWindowId
    \/ CallGetClass \/ ReturnGetClass

Spec == Init /\ [][Next]_vars

(***************************************************************************)
(* src/src/main.rs: main.  line is the statement main is at.               *)
(***************************************************************************)
InitMain ==
    /\ epoch = 0
    /\ bus = <<>>
    /\ pc = "idle"
    /\ pending = NoPending
    /\ ncalls = 0
    /\ result = NoResult
    /\ screens = <<>>
    /\ tags = <<>>
    /\ clients = <<>>
    /\ line = "L195"
    /\ si = 0
    /\ ti = 0
    /\ ci = 0
    /\ probe = NoProbe

\* where main continues when the loop over screens takes its next element
NextScreen(s, scr) ==
    IF s < Len(scr) THEN [line |-> "L202", si |-> s + 1, ti |-> 0, ci |-> 0]
    ELSE [line |-> "done", si |-> 0, ti |-> 0, ci |-> 0]

NextTag(s, t, scr, tgs) ==
    IF t < Len(tgs) THEN [line |-> "L209", si |-> s, ti |-> t + 1, ci |-> 0]
    ELSE NextScreen(s, scr)

NextClient(s, t, c, scr, tgs, cls) ==
    IF c < Len(cls) THEN [line |-> "L212", si |-> s, ti |-> t, ci |-> c + 1]
    ELSE NextTag(s, t, scr, tgs)

\* main moves on; a sequence is dropped when its loop is left
Goto(pos, scr, tgs, cls) ==
    /\ line' = pos.line
    /\ si' = pos.si
    /\ ti' = pos.ti
    /\ ci' = pos.ci
    /\ screens' = IF pos.si = 0 THEN <<>> ELSE scr
    /\ tags' = IF pos.ti = 0 THEN <<>> ELSE tgs
    /\ clients' = IF pos.ci = 0 THEN <<>> ELSE cls

\* variant: the failed statement is tried again
FailRetry == UNCHANGED <<line, si, ti, ci, screens, tags, clients>>

\* the ? in main: the error leaves main
Fail == Goto([line |-> "failed", si |-> 0, ti |-> 0, ci |-> 0], <<>>, <<>>, <<>>)

\* let screen_count = awesome.get_screen_count().await?;
Main195Call ==
    /\ line = "L195"
    /\ Call("get_screen_count", NoNode, ScreenCountCode)
    /\ UNCHANGED mainVars

Main195Return ==
    /\ line = "L195"
    /\ Awaiting("get_screen_count")
    /\ \E r \in Replies(Head(bus), epoch) :
          LET out == GetScreenCount(pending.node, r)
          IN  /\ Return("get_screen_count", r, out)
              /\ IF out.kind = "Ok"
                 THEN /\ line' = "L199"
                      /\ UNCHANGED <<screens, tags, clients, si, ti, ci>>
                 ELSE Fail

\* let screens = awesome.get_screens().await?;  for screen in screens
Main199Call ==
    /\ line = "L199"
    /\ Call("get_screens", NoNode, ScreenCountCode)
    /\ UNCHANGED mainVars

Main199Return ==
    /\ line = "L199"
    /\ Awaiting("get_screens")
    /\ \E r \in Replies(Head(bus), epoch) :
          LET out == GetScreens(pending.node, r)
          IN  /\ Return("get_screens", r, out)
              /\ IF out.kind = "Ok"
                 THEN Goto(NextScreen(0, out.val), out.val, <<>>, <<>>)
                 ELSE Fail

\* let tag_count = screen.get_tag_count().await?;
Main202Call ==
    /\ line = "L202"
    /\ Call("get_tag_count", screens[si], TagCountCode(screens[si]))
    /\ UNCHANGED mainVars

Main202Return ==
    /\ line = "L202"
    /\ Awaiting("get_tag_count")
    /\ \E r \in Replies(Head(bus), epoch) :
          LET out == GetTagCount(pending.node, r)
          IN  /\ Return("get_tag_count", r, out)
              /\ IF out.kind = "Ok"
                 THEN /\ line' = "L206"
                      /\ UNCHANGED <<screens, tags, clients, si, ti, ci>>
                 ELSE Fail

\* let tags = screen.get_tags().await?;  for tag in tags
Main206Call ==
    /\ line = "L206"
    /\ Call("get_tags", screens[si], TagCountCode(screens[si]))
    /\ UNCHANGED mainVars

Main206Return ==
    /\ line = "L206"
    /\ Awaiting("get_tags")
    /\ \E r \in Replies(Head(bus), epoch) :
          LET out == GetTags(pending.node, r)
          IN  /\ Return("get_tags", r, out)
              /\ IF out.kind = "Ok"
                 THEN Goto(NextTag(si, 0, screens, out.val), screens, out.val, <<>>)
                 ELSE Fail

\* let clients = tag.get_clients().await?;  for client in clients
Main209Call ==
    /\ line = "L209"
    /\ Call("get_clients", tags[ti], ClientCountCode(tags[ti]))
    /\ UNCHANGED mainVars

Main209Return ==
    /\ line = "L209"
    /\ Awaiting("get_clients")
    /\ \E r \in Replies(Head(bus), epoch) :
          LET out == GetClients(pending.node, r)
          IN  /\ Return("get_clients", r, out)
              /\ IF out.kind = "Ok"
                 THEN Goto(NextClient(si, ti, 0, screens, tags, out.val),
                           screens, tags, out.val)
                 ELSE Fail

\* println!("Client {} on tag {}", client.get_class().await?, tag.index);
Main212Call ==
    /\ line = "L212"
    /\ Call("get_class", clients[ci], ClientCode(clients[ci], "class"))
    /\ UNCHANGED mainVars

Main212Return ==
    /\ line = "L212"
    /\ Awaiting("get_class")
    /\ \E r \in Replies(Head(bus), epoch) :
          LET out == GetClass(pending.node, r)
          IN  /\ Return("get_class", r, out)
              /\ IF out.kind = "Ok"
                 THEN Goto(NextClient(si, ti, ci, screens, tags, clients),
                           screens, tags, clients)
                 ELSE Fail

MainStep ==
    \/ Main195Call \/ Main195Return
    \/ Main199Call \/ Main199Return
    \/ Main202Call \/ Main202Return
    \/ Main206Call \/ Main206Return
    \/ Main209Call \/ Main209Return
    \/ Main212Call \/ Main212Return

NextMain == RemoteChange \/ MainStep

SpecMain == InitMain /\ [][NextMain]_vars

\* the runtime keeps polling main and the bus answers every call
SpecMainFair == SpecMain /\ WF_vars(MainStep)

(***************************************************************************)
(* The index arithmetic over the whole u32 range.  A sequence of 2^32      *)
(* nodes is not built; one value of the range is followed instead: the     *)
(* count reply is decoded, a value i of 0..count is taken, the loop body   *)
(* makes the node, and the node builds the expression of its first query.  *)
(***************************************************************************)
ProbeTexts == {"0", "1", "2", "65535", "65536", "65537", "4294967294",
               "4294967295", "4294967296", "+4294967295", "abc", "", "-1", "3"}

\* the values of the range worth following: its ends, and the limb carries
ProbeValues(count) ==
    {v \in {U32(0), U32(1), U32(Limb - 1), [hi |-> 1, lo |-> 0], count,
            IF count = U32(0) THEN count ELSE SubOne(count)} : InRange(v, count)}

InitProbe ==
    /\ epoch = 0
    /\ bus = <<>>
    /\ pc = "idle"
    /\ pending = NoPending
    /\ ncalls = 0
    /\ result = NoResult
    /\ screens = <<>>
    /\ tags = <<>>
    /\ clients = <<>>
    /\ line = "none"
    /\ si = 0
    /\ ti = 0
    /\ ci = 0
    /\ \E text \in ProbeTexts, level \in {"screen", "tag", "client"} :
          probe = [NoProbe EXCEPT !.stage = "reply", !.text = text, !.level = level]

probeFrame == <<epoch, bus, pc, pending, ncalls, result, screens, tags, clients,
                line, si, ti, ci>>

\* .parse().map_err(EvalError::CountParseError) on the count reply
ProbeDecode ==
    /\ probe.stage = "reply"
    /\ LET out == ParseReply([ok |-> TRUE, text |-> probe.text, n |-> -1])
       IN  probe' = IF out.kind = "Ok"
                    THEN [probe EXCEPT !.stage = "count", !.count = out.val]
                    ELSE [probe EXCEPT !.stage = "error"]
    /\ UNCHANGED probeFrame

\* for i in 0..screen_count { screens.push(..) }
ProbePushScreen ==
    /\ probe.stage = "count" /\ probe.level = "screen"
    /\ \E i \in ProbeValues(probe.count) :
          probe' = [probe EXCEPT !.stage = "node", !.i = i,
                                 !.node = PushScreen(i).node, !.ovf = PushScreen(i).ovf]
    /\ UNCHANGED probeFrame

\* for i in 0..tag_count { tags.push(..) }
ProbePushTag ==
    /\ probe.stage = "count" /\ probe.level = "tag"
    /\ \E i \in ProbeValues(probe.count) :
          LET p == PushTag(i, AwesomeScreen(i))
          IN  probe' = [probe EXCEPT !.stage = "node", !.i = i,
                                     !.node = p.node, !.ovf = p.ovf]
    /\ UNCHANGED probeFrame

\* for i in 0..client_count { clients.push(..) }
ProbePushClient ==
    /\ probe.stage = "count" /\ probe.level = "client"
    /\ \E i \in ProbeValues(probe.count) :
          LET p == PushClient(i, AwesomeTag(i, AwesomeScreen(i)))
          IN  probe' = [probe EXCEPT !.stage = "node", !.i = i,
                                     !.node = p.node, !.ovf = p.ovf]
    /\ UNCHANGED probeFrame

\* the node's query: get_tag_count, get_clients, get_class
ProbeQuery ==
    /\ probe.stage = "node"
    /\ LET code == CASE probe.level = "screen" -> TagCountCode(probe.node)
                     [] probe.level = "tag" -> ClientCountCode(probe.node)
                     [] OTHER -> ClientCode(probe.node, "class")
       IN  probe' = [probe EXCEPT !.stage = "sent", !.code = code.text,
                                  !.ovf = probe.ovf \/ code.ovf]
    /\ UNCHANGED probeFrame

NextProbe ==
    \/ ProbeDecode
    \/ ProbePushScreen
    \/ ProbePushTag
    \/ ProbePushClient
    \/ ProbeQuery

SpecProbe == InitProbe /\ [][NextProbe]_vars

(***************************************************************************)
(* Vocabulary of the properties.  The expected expression of an operation  *)
(* is written with the remote's own addressing, not with the program's     *)
(* format strings.                                                         *)
(***************************************************************************)
ToNat(v) == v.hi * Limb + v.lo

Elems(seq) == {seq[k] : k \in 1..Len(seq)}

ChildrenOps == {"get_screens", "get_tags", "get_clients"}

DecodeOps == {"get_screen_count", "get_tag_count", "get_clients", "get_x_window_id"}

ExpectedQuery(op, node) ==
    CASE op \in {"get_screen_count", "get_screens"} -> Wrapped("screen:count()")
      [] op \in {"get_tag_count", "get_tags"} ->
            Wrapped("#" \o RemoteScreen(ToNat(node.index) + 1) \o ".tags")
      [] op = "tag_get_name" ->
            Wrapped(RemoteTag(ToNat(node.screen.index) + 1, ToNat(node.index) + 1)
                    \o ".name")
      [] op = "get_clients" ->
            Wrapped("#" \o RemoteTag(ToNat(node.screen.index) + 1, ToNat(node.index) + 1)
                    \o ":clients()")
      [] OTHER ->
            Wrapped(RemoteClient(ToNat(node.tag.screen.index) + 1,
                                 ToNat(node.tag.index) + 1, ToNat(node.index))
                    \o (CASE op = "client_get_name" -> ".name"
                          [] op = "get_x_window_id" -> ".window"
                          [] OTHER -> ".class"))

\* C1: a children operation whose count reply decodes to N returns exactly N
\* nodes, with consecutive ascending indices from 0 (screens, tags) or from
\* 1 (clients); N = 0 gives the empty sequence.
C1_ChildrenMatchCount ==
    (result.op \in ChildrenOps /\ result.reply.ok /\ result.reply.n >= 0) =>
        /\ result.out.kind = "Ok"
        /\ Len(result.out.val) = result.reply.n
        /\ \A k \in 1..Len(result.out.val) :
              result.out.val[k].index =
                  U32(IF result.op = "get_clients" THEN k ELSE k - 1)

C1_Witness ==
    /\ result.op = "get_clients"
    /\ result.reply.text = "2"
    /\ result.out.kind = "Ok"
    /\ Len(result.out.val) = 2
    /\ result.out.val[2].index = U32(2)

\* C2: every expression sent embeds index + 1 for each screen and tag on the
\* chain of the node (the tag's own index included) and the client's stored
\* index as it is.
C2_ExpressionsAddressFromOne ==
    (pc = "awaiting" /\ bus # <<>>) => Head(bus) = ExpectedQuery(pending.op, pending.node)

C2_Witness ==
    /\ pc = "awaiting"
    /\ pending.op = "get_class"
    /\ Len(screens) = 1 /\ Len(tags) = 2 /\ Len(clients) = 1
    /\ pending.node = AwesomeClient(U32(1), AwesomeTag(U32(0), AwesomeScreen(U32(0))))
    /\ bus = <<"return tostring(screen[1].tags[1]:clients()[1].class)">>

\* C3: when the count call fails on the bus, a children operation returns
\* the bus error and no node.
C3_TransportFailureNoChildren ==
    (result.op \in ChildrenOps /\ ~result.reply.ok) =>
        /\ result.out.kind = "DBusConnectionError"
        /\ result.out.val = <<>>

C3_Witness ==
    /\ result.op = "get_tags"
    /\ ~result.reply.ok
    /\ result.out.kind = "DBusConnectionError"
    /\ tags # <<>>

\* C4: for the operations that decode a number, a failed call gives the bus
\* error, a reply that is not a number in range gives the parse error, and a
\* reply that is a number gives that number.
C4_ErrorKindsApart ==
    (result.op \in DecodeOps \cup ChildrenOps) =>
        /\ ~result.reply.ok => result.out.kind = "DBusConnectionError"
        /\ (result.reply.ok /\ result.reply.n < 0) => result.out.kind = "CountParseError"
        /\ (result.reply.ok /\ result.reply.n >= 0) =>
              /\ result.out.kind = "Ok"
              /\ result.op \notin ChildrenOps => result.out.val = U32(result.reply.n)

C4_Witness ==
    /\ result.op = "get_x_window_id"
    /\ result.reply.ok
    /\ result.reply.text = "3"
    /\ result.out = Ok(U32(3))

\* C5: an operation makes exactly one eval call; when it has returned, with
\* a value or an error, no call is left on the bus and none was repeated.
C5_OneCallPerInvocation ==
    /\ pc = "awaiting" => (ncalls = 1 /\ Len(bus) = 1)
    /\ result.op # "none" => (ncalls = 1 /\ bus = <<>> /\ pc = "idle")

C5_Witness ==
    /\ result.op = "get_screens"
    /\ result.out.kind = "CountParseError"
    /\ ncalls = 1
    /\ bus = <<>>

\* C6: a property fetch that fails leaves the sequences the caller holds as
\* they are, and a property fetch on a sibling that follows it sends the
\* sibling's own expression (and can return the sibling's value).
FailedFetch ==
    /\ pc = "awaiting" /\ pc' = "idle"
    /\ pending.op \in PropertyOps
    /\ result'.out.kind # "Ok"

FetchAfterFailure ==
    /\ pc = "idle" /\ pc' = "awaiting"
    /\ pending'.afterFailure
    /\ pending'.op \in PropertyOps

C6_FailedFetchIsLocal ==
    [][/\ FailedFetch => UNCHANGED <<screens, tags, clients>>
       /\ FetchAfterFailure =>
            /\ UNCHANGED <<screens, tags, clients>>
            /\ bus' = <<ExpectedQuery(pending'.op, pending'.node)>>]_vars

C6_Witness ==
    /\ result.afterFailure
    /\ result.op = "get_class"
    /\ result.node.index = U32(2)
    /\ result.out = Ok("class1.1.2@0")
    /\ Len(clients) = 2

\* C7: the nodes the caller holds change only when an enumeration returns a
\* new sequence, and the value a property fetch returns is the one the
\* remote holds, when it answers, at the position the stored indices
\* address.
HeldNodesStable ==
    /\ screens' # screens => (result'.op = "get_screens" /\ result'.out.kind = "Ok")
    /\ tags' # tags => (result'.op \in {"get_screens", "get_tags"} /\ result'.out.kind = "Ok")
    /\ clients' # clients => (result'.op \in ChildrenOps /\ result'.out.kind = "Ok")

FetchReflectsRemote ==
    (/\ pc = "awaiting" /\ pc' = "idle"
     /\ pending.op \in PropertyOps
     /\ result'.reply.ok
     /\ result'.reply.text \notin {a.text : a \in OtherAnswers}) =>
        /\ result'.node = pending.node
        /\ result'.out.kind = "Ok"
        /\ LET node == pending.node
           IN  CASE pending.op = "tag_get_name" ->
                      result'.out.val = RemoteText("tag", ToNat(node.screen.index) + 1,
                                                   ToNat(node.index) + 1, 0, epoch)
                 [] pending.op = "get_x_window_id" ->
                      result'.out.val = U32(RemoteWindow(ToNat(node.tag.screen.index) + 1,
                                                         ToNat(node.tag.index) + 1,
                                                         ToNat(node.index), epoch))
                 [] OTHER ->
                      result'.out.val =
                          RemoteText(IF pending.op = "get_class" THEN "class" ELSE "name",
                                     ToNat(node.tag.screen.index) + 1,
                                     ToNat(node.tag.index) + 1, ToNat(node.index), epoch)

C7_NothingCached == [][HeldNodesStable /\ FetchReflectsRemote]_vars

C7_Witness ==
    /\ result.op = "client_get_name"
    /\ result.asked = 0
    /\ epoch = 1
    /\ result.node = AwesomeClient(U32(2), AwesomeTag(U32(1), AwesomeScreen(U32(1))))
    /\ result.out = Ok("name2.2.2@1")
    /\ result.node \in Elems(clients)

\* C8: main never has two eval calls on the bus, and a node is queried only
\* while main holds it, that is after the count reply of its container was
\* decoded; while a container's count is awaited it has no children yet.
C8_OneCallInDependencyOrder ==
    /\ Len(bus) <= 1
    /\ line \in {"L195", "L199"} => (screens = <<>> /\ tags = <<>> /\ clients = <<>>)
    /\ line \in {"L202", "L206"} => (tags = <<>> /\ clients = <<>>)
    /\ line = "L209" => clients = <<>>
    /\ pending.op \in {"get_tag_count", "get_tags"} => pending.node \in Elems(screens)
    /\ pending.op = "get_clients" =>
          (pending.node \in Elems(tags) /\ pending.node.screen \in Elems(screens))
    /\ pending.op = "get_class" =>
          (pending.node \in Elems(clients) /\ pending.node.tag \in Elems(tags))

C8_Witness ==
    /\ line = "L212"
    /\ pc = "awaiting"
    /\ Len(bus) = 1
    /\ si = 2 /\ ti = 2 /\ ci = 2
    /\ pending.node = clients[2]

\* C9: whatever count a reply decodes to, up to 2^32 - 1, no index addition
\* overflows: a screen or tag index is below the count, and a client index
\* is at least 1 and at most the count.
C9_NoIndexOverflow ==
    /\ ~probe.ovf
    /\ (probe.stage \in {"node", "sent"} /\ probe.level \in {"screen", "tag"}) =>
          LtU32(probe.node.index, probe.count)
    /\ (probe.stage \in {"node", "sent"} /\ probe.level = "client") =>
          /\ ~LtU32(probe.count, probe.node.index)
          /\ LtU32(U32(0), probe.node.index)

C9_Witness ==
    /\ probe.stage = "sent"
    /\ probe.level = "screen"
    /\ probe.text = "4294967295"
    /\ probe.count = U32Max
    /\ probe.node.index = SubOne(U32Max)
    /\ probe.code = "#screen[4294967295].tags"
    /\ ~probe.ovf

\* C10: main goes through screens, tags and clients depth-first in
\* ascending order, it ends, and the first call that returns an error ends
\* it with no further call.
LexLess(a, b) ==
    \/ a[1] < b[1]
    \/ a[1] = b[1] /\ a[2] < b[2]
    \/ a[1] = b[1] /\ a[2] = b[2] /\ a[3] < b[3]

MainInOrder ==
    /\ (<<si, ti, ci>>' # <<si, ti, ci>> /\ line' \notin {"done", "failed"}) =>
          LexLess(<<si, ti, ci>>, <<si', ti', ci'>>)
    /\ (pc = "idle" /\ pc' = "awaiting") =>
          CASE pending'.op \in {"get_tag_count", "get_tags"} ->
                  pending'.node = AwesomeScreen(U32(si - 1))
            [] pending'.op = "get_clients" ->
                  pending'.node = AwesomeTag(U32(ti - 1), AwesomeScreen(U32(si - 1)))
            [] pending'.op = "get_class" ->
                  pending'.node = AwesomeClient(U32(ci),
                                      AwesomeTag(U32(ti - 1), AwesomeScreen(U32(si - 1))))
            [] OTHER -> pending'.node = NoNode

MainStopsAtError ==
    /\ (result' # result /\ result'.out.kind # "Ok") => line' = "failed"
    /\ line = "failed" => UNCHANGED <<bus, pc, ncalls, line, result>>

C10_MainTraversal ==
    /\ <>(line \in {"done", "failed"})
    /\ [][MainInOrder /\ MainStopsAtError]_vars

C10_Witness ==
    /\ line = "failed"
    /\ result.op = "get_class"
    /\ result.node.index = U32(1)
    /\ result.node.tag = AwesomeTag(U32(1), AwesomeScreen(U32(0)))
    /\ result.out.kind = "DBusConnectionError"
    /\ bus = <<>>
=============================================================================
